---- MODULE Spec2Model ----
(***************************************************************************)
(* Adobe I/O MCP server: the schema store (SDKSchemaManager), the          *)
(* validator compiler (createZodSchema over zod 3), the default resolver   *)
(* (applyDefaults) and the request router (AdobeIOMCPServer.setupTools).   *)
(*                                                                         *)
(* JavaScript values are records [t, v]: t is the zod parsed type          *)
(* ("integer" and "float" are both typeof number), v the literal's text.   *)
(* A text is a sequence of tokens; a template literal concatenates them.   *)
(***************************************************************************)
EXTENDS Integers, Sequences, FiniteSets, TLC

\* ------------------------------------------------------------------------
\* Bounds
\* ------------------------------------------------------------------------
\* largest number of files in the schemas directory
MaxFiles == 3

\* ------------------------------------------------------------------------
\* JavaScript values
\* ------------------------------------------------------------------------
Str(s) == [t |-> "string", v |-> s]
Whole(s) == [t |-> "integer", v |-> s]
Frac(s) == [t |-> "float", v |-> s]
Bool(s) == [t |-> "boolean", v |-> s]
JsNull == [t |-> "null", v |-> "null"]
JsObj == [t |-> "object", v |-> "{}"]

\* zod's getParsedType: typeof, with null told apart from object
ParsedType(val) == IF val.t \in {"integer", "float"} THEN "number" ELSE val.t

EmptyObj == [k \in {} |-> JsNull]

\* ------------------------------------------------------------------------
\* Descriptor documents (files of the schemas directory)
\* ------------------------------------------------------------------------
\* a property schema; hasEnum/hasDefault tell whether the key is present
Prop(key, type, hasEnum, enum, hasDefault, default) ==
    [key |-> key, isObject |-> TRUE, type |-> type, hasEnum |-> hasEnum, enum |-> enum,
     hasDefault |-> hasDefault, default |-> default]

\* a property whose schema is the JSON value null (z.record(z.any()) admits it)
NullProp(key) ==
    [key |-> key, isObject |-> FALSE, type |-> "", hasEnum |-> FALSE, enum |-> <<>>,
     hasDefault |-> FALSE, default |-> JsNull]

\* a parsed document: the fields ToolInputSchema looks at
Doc(file, name, hasDescription, type, hasProperties, properties, required) ==
    [file |-> file, isJson |-> TRUE, parses |-> TRUE, hasName |-> TRUE, name |-> name,
     hasDescription |-> hasDescription, type |-> type,
     hasProperties |-> hasProperties, properties |-> properties,
     required |-> required]

\* a file whose content is not JSON: JSON.parse throws a SyntaxError
Unparsable(file) ==
    [file |-> file, isJson |-> TRUE, parses |-> FALSE, hasName |-> FALSE, name |-> "",
     hasDescription |-> FALSE, type |-> "", hasProperties |-> FALSE,
     properties |-> <<>>, required |-> {}]

DocLogin ==
    Doc("aio-login.json", "aio-login", TRUE, "object", TRUE,
        << Prop("param1", "string", FALSE, <<>>, FALSE, JsNull),
           Prop("param2", "boolean", FALSE, <<>>, TRUE, Bool("false")) >>,
        {"param1"})

DocExample ==
    Doc("example-tool.json", "example-tool", TRUE, "object", TRUE,
        << Prop("param1", "string", TRUE, <<Str("a"), Str("b")>>, FALSE, JsNull) >>,
        {})

DocWhere ==
    Doc("aio-where.json", "aio-where", TRUE, "object", FALSE, <<>>, {})

DocBadShape ==
    Doc("onboard.json", "onboard", TRUE, "array", TRUE,
        << Prop("param1", "string", FALSE, <<>>, FALSE, JsNull) >>, {})

DocSyntax == Unparsable("broken.json")

DocNullProp ==
    Doc("aio-app-use.json", "aio-app-use", TRUE, "object", TRUE,
        << NullProp("param1") >>, {})

Docs == {DocLogin, DocExample, DocWhere, DocBadShape, DocSyntax, DocNullProp}

\* the directory listings the model starts from: distinct files, any order
RECURSIVE Listings(_)
Listings(n) ==
    IF n = 0 THEN {<<>>}
    ELSE LET shorter == Listings(n - 1)
         IN  shorter \cup
             {Append(l, d) : l \in {s \in shorter : Len(s) = n - 1},
                             d \in Docs}

Distinct(l) == \A i, j \in 1..Len(l) : i # j => l[i] # l[j]

Directories == {l \in Listings(MaxFiles) : Distinct(l)}

\* ------------------------------------------------------------------------
\* Texts
\* ------------------------------------------------------------------------
\* Array.prototype.join over token sequences
RECURSIVE Join(_, _)
Join(parts, sep) ==
    IF Len(parts) = 0 THEN <<>>
    ELSE IF Len(parts) = 1 THEN parts[1]
    ELSE parts[1] \o <<sep>> \o Join(Tail(parts), sep)

\* the text contains the word w
Mentions(text, w) == \E i \in 1..Len(text) : text[i] = w

\* zod's util.joinValues: strings are quoted, values separated by " | "
JoinValues(vals) ==
    Join([i \in 1..Len(vals) |->
            IF vals[i].t = "string" THEN <<"'", vals[i].v, "'">> ELSE <<vals[i].v>>],
         " | ")

\* ------------------------------------------------------------------------
\* ToolInputSchema: the shape a descriptor document must have
\* ------------------------------------------------------------------------
ToolInputSchemaOk(doc) ==
    /\ doc.hasName
    /\ doc.hasDescription
    /\ doc.type = "object"

\* ------------------------------------------------------------------------
\* createZodSchema: the validator compiled from a descriptor
\* ------------------------------------------------------------------------
\* the zod type of one property: the base type, the enum that replaces it,
\* and optional() when the key is not listed in required
BaseType(type) ==
    IF type \in {"string", "boolean", "integer", "number", "object"} THEN type ELSE "any"

ZodType(propSchema, required) ==
    [key |-> propSchema.key,
     base |-> BaseType(propSchema.type),
     isEnum |-> propSchema.hasEnum,
     values |-> propSchema.enum,
     optional |-> propSchema.key \notin required]

\* createZodSchema returns without compiling when there are no properties
Compiles(toolSchema) == toolSchema.hasProperties

\* reading .type of a null property schema throws a TypeError
CompileThrows(toolSchema) ==
    /\ Compiles(toolSchema)
    /\ \E i \in 1..Len(toolSchema.properties) : ~toolSchema.properties[i].isObject

createZodSchema(toolSchema) ==
    [i \in 1..Len(toolSchema.properties) |->
        ZodType(toolSchema.properties[i], toolSchema.required)]

\* Map.prototype.set
MapSet(map, key, val) ==
    [k \in DOMAIN map \cup {key} |-> IF k = key THEN val ELSE map[k]]

EmptyMap == [k \in {} |-> 0]

\* ------------------------------------------------------------------------
\* zod 3 parsing: z.object(shape).safeParse(input)
\* ------------------------------------------------------------------------
\* argument objects: [defined |-> FALSE] is undefined, otherwise obj maps
\* the keys that are present to their values
NoArgs == [defined |-> FALSE, obj |-> EmptyObj]
Args(obj) == [defined |-> TRUE, obj |-> obj]

\* the default error map's message for an invalid_type issue
InvalidType(expected, received) ==
    IF received = "undefined" THEN <<"Required">>
    ELSE <<"Expected ">> \o expected \o <<", received ", received>>

\* the type an invalid_type issue of this zod type names as expected
Expected(zt) ==
    IF zt.isEnum THEN JoinValues(zt.values)
    ELSE IF zt.base = "integer" THEN <<"number">> ELSE <<zt.base>>

\* the issues (messages) of one present value against one zod type
ValueIssues(zt, val) ==
    IF zt.isEnum
    THEN IF ParsedType(val) # "string"
         THEN <<InvalidType(JoinValues(zt.values), ParsedType(val))>>
         ELSE IF \E i \in 1..Len(zt.values) : zt.values[i] = val
              THEN <<>>
              ELSE << <<"Invalid enum value. Expected ">> \o JoinValues(zt.values)
                      \o <<", received '", val.v, "'">> >>
    ELSE CASE zt.base = "any" -> <<>>
           [] zt.base = "integer" ->
                IF ParsedType(val) # "number"
                THEN <<InvalidType(<<"number">>, ParsedType(val))>>
                ELSE IF val.t = "float"
                     THEN <<InvalidType(<<"integer">>, "float")>>
                     ELSE <<>>
           [] OTHER ->
                IF ParsedType(val) # zt.base
                THEN <<InvalidType(<<zt.base>>, ParsedType(val))>>
                ELSE <<>>

\* the issues of one key of the shape: an absent key is the value undefined,
\* which optional() and z.any() accept
KeyIssues(zt, obj) ==
    IF zt.key \in DOMAIN obj
    THEN ValueIssues(zt, obj[zt.key])
    ELSE IF zt.optional \/ (zt.base = "any" /\ ~zt.isEnum)
         THEN <<>>
         ELSE <<InvalidType(Expected(zt), "undefined")>>

\* every key of the shape is parsed; the issues are collected in shape order
RECURSIVE ShapeIssues(_, _)
ShapeIssues(shape, obj) ==
    IF Len(shape) = 0 THEN <<>>
    ELSE KeyIssues(shape[1], obj) \o ShapeIssues(Tail(shape), obj)

ShapeKeys(shape) == {shape[i].key : i \in 1..Len(shape)}

\* an object schema in passthrough mode: unknown keys are kept
StripPassthrough(shape, obj) == obj

\* the parsed data keeps the keys of the shape only (unknown keys stripped)
Strip(shape, obj) == [k \in DOMAIN obj \cap ShapeKeys(shape) |-> obj[k]]

SafeParse(shape, input) ==
    IF ~input.defined
    THEN [success |-> FALSE, data |-> EmptyObj,
          issues |-> <<InvalidType(<<"object">>, "undefined")>>]
    ELSE LET issues == ShapeIssues(shape, input.obj)
         IN  IF Len(issues) = 0
             THEN [success |-> TRUE, data |-> Strip(shape, input.obj), issues |-> <<>>]
             ELSE [success |-> FALSE, data |-> EmptyObj, issues |-> issues]

\* ------------------------------------------------------------------------
\* SDKSchemaManager: validateInput, applyDefaults, validateToolRequest
\* ------------------------------------------------------------------------
\* validateInput without the lookup guard: a name with no validator is accepted
validateInputNoLookup(zods, schemaName, input) ==
    IF schemaName \notin DOMAIN zods
    THEN [valid |-> TRUE, data |-> input.obj, error |-> <<>>]
    ELSE LET validation == SafeParse(zods[schemaName], input)
         IN  IF validation.success
             THEN [valid |-> TRUE, data |-> validation.data, error |-> <<>>]
             ELSE [valid |-> FALSE, data |-> EmptyObj,
                   error |-> <<"Validation failed: ">> \o Join(validation.issues, ", ")]

validateInput(zods, schemaName, input) ==
    IF schemaName \notin DOMAIN zods
    THEN [valid |-> FALSE, data |-> EmptyObj,
          error |-> <<"Schema not found: ", schemaName>>]
    ELSE LET validation == SafeParse(zods[schemaName], input)
         IN  IF validation.success
             THEN [valid |-> TRUE, data |-> validation.data, error |-> <<>>]
             ELSE [valid |-> FALSE, data |-> EmptyObj,
                   error |-> <<"Validation failed: ">> \o Join(validation.issues, ", ")]

\* the defaults of the declared properties that are absent from the input
\* property names every object literal inherits from Object.prototype
ObjectPrototypeKeys ==
    {"constructor", "toString", "valueOf", "hasOwnProperty", "__proto__"}

\* `key in result`, result being the object literal spread from the input:
\* true for own keys and for inherited ones
KeyIn(key, input) == key \in DOMAIN input \/ key \in ObjectPrototypeKeys

DefaultKeys(schema, input) ==
    {schema.properties[i].key : i \in
        {j \in 1..Len(schema.properties) :
            /\ ~KeyIn(schema.properties[j].key, input)
            /\ schema.properties[j].hasDefault}}

DefaultOf(schema, key) ==
    LET i == CHOOSE j \in 1..Len(schema.properties) : schema.properties[j].key = key
    IN  schema.properties[i].default

\* a resolver that fills no default
applyDefaultsNone(schs, input, schemaName) == input

applyDefaults(schs, input, schemaName) ==
    IF schemaName \notin DOMAIN schs
    THEN input
    ELSE LET schema == schs[schemaName]
         IN  IF schema.hasProperties
             THEN [k \in DOMAIN input \cup DefaultKeys(schema, input) |->
                      IF k \in DOMAIN input THEN input[k] ELSE DefaultOf(schema, k)]
             ELSE input

\* the `in` operator on a property schema that is null throws a TypeError
ApplyDefaultsThrows(schs, input, schemaName) ==
    /\ schemaName \in DOMAIN schs
    /\ schs[schemaName].hasProperties
    /\ \E i \in 1..Len(schs[schemaName].properties) :
          /\ ~KeyIn(schs[schemaName].properties[i].key, input)
          /\ ~schs[schemaName].properties[i].isObject

\* the early return hands back the caller's object, the other paths return
\* the object literal created by the spread
ApplyDefaultsReturnsInput(schs, schemaName) == schemaName \notin DOMAIN schs

\* a call request: method, params.name and params.arguments
Request(method, hasName, name, argsIsObject, args) ==
    [method |-> method, hasName |-> hasName, name |-> name,
     argsIsObject |-> argsIsObject, args |-> args]

\* CallToolRequestSchema: method is the literal tools/call, params.name a
\* string, params.arguments an optional record
EnvelopeIssues(request) ==
    (IF request.method = "tools/call" THEN <<>>
     ELSE << <<"Invalid literal value, expected ", "\"tools/call\"">> >>)
    \o (IF request.hasName THEN <<>> ELSE <<InvalidType(<<"string">>, "undefined")>>)
    \o (IF request.argsIsObject THEN <<>> ELSE <<InvalidType(<<"object">>, "string")>>)

validateToolRequest(request) ==
    LET issues == EnvelopeIssues(request)
    IN  IF Len(issues) = 0
        THEN [valid |-> TRUE, error |-> <<>>]
        ELSE [valid |-> FALSE,
              error |-> <<"Invalid tool request: ">> \o Join(issues, ", ")]

\* ------------------------------------------------------------------------
\* Dispatch table
\* ------------------------------------------------------------------------
HandlerNames ==
    {"aio-app-deploy", "aio-app-dev", "aio-dev-invoke", "aio-login", "aio-where",
     "aio-app-use", "aio-configure-global", "onboard", "commerce-event-subscribe",
     "search-commerce-app-builder-docs"}

\* a dispatch table whose default case returns a handler
getToolHandlerNoDefault(name) == name

\* getToolHandler returns null for a name outside the switch
getToolHandler(name) == IF name \in HandlerNames THEN name ELSE "null"

\* ------------------------------------------------------------------------
\* Tool responses
\* ------------------------------------------------------------------------
\* {content: [{type: 'text', text}]}
TextResponse(text) == [content |-> << [type |-> "text", text |-> text] >>]

NoResponse == [kind |-> "none", value |-> [content |-> <<>>], message |-> ""]
\* the request handler's promise resolved with value
Returned(value) == [kind |-> "returned", value |-> value, message |-> ""]
\* the request handler's promise rejected
Escaped(message) == [kind |-> "threw", value |-> [content |-> <<>>], message |-> message]

\* a catch clause that rethrows
RouterCatchRethrows(message) == Escaped(message)

\* a catch clause that drops the error's message
RouterCatchNoMessage(message) == Returned(TextResponse(<<"Error: ">>))

\* the catch clause of the CallTool request handler
RouterCatch(message) == Returned(TextResponse(<<"Error: ", message>>))

\* the leading cross-mark emoji of the two validation texts is written (x)
InvalidRequest(error) ==
    Returned(TextResponse(<<"(x) Invalid request format: ">> \o error))

InvalidInput(error) ==
    Returned(TextResponse(<<"(x) Input validation failed: ">> \o error))

\* what a tool handler resolves with: one text block carrying its narrative
HandlerResponse(name) == TextResponse(<<"narrative of ", name>>)

\* messages of the errors handlers throw: the TypeError of
\* result.error.includes on a null error, and a failed dynamic import
HandlerErrors ==
    {"Cannot read properties of null (reading 'includes')", "Cannot find module"}

\* ------------------------------------------------------------------------
\* Inputs of the call requests
\* ------------------------------------------------------------------------
ArgObjects ==
    { EmptyObj,
      [param1 |-> Str("x")],
      [param1 |-> Str("a")],
      [param1 |-> Whole("5")],
      [param1 |-> Str("x"), param2 |-> Bool("true")],
      [param1 |-> Whole("5"), param2 |-> Str("x")],
      [param1 |-> Str("a"), extra |-> Str("e")] }

RequestNames == {"aio-login", "example-tool", "aio-where"}

Requests ==
    {Request("tools/call", TRUE, n, TRUE, Args(o)) : n \in RequestNames, o \in ArgObjects}
    \cup {Request("tools/call", TRUE, n, TRUE, NoArgs) : n \in RequestNames}
    \cup {Request("tools/call", FALSE, "", TRUE, Args(EmptyObj)),
          Request("tools/call", TRUE, "aio-login", FALSE, NoArgs),
          Request("tools/list", FALSE, "", FALSE, NoArgs)}

\* ------------------------------------------------------------------------
\* State
\* ------------------------------------------------------------------------
VARIABLES
    dir,          \* the files of the schemas directory, in readdir order
    schemas,      \* SDKSchemaManager.schemas: name -> descriptor
    zodSchemas,   \* SDKSchemaManager.zodSchemas: name -> compiled validator
    load,         \* the loadSchemas call in flight: pc, jsonFiles, loop index
    callPc,       \* the CallTool request handler: idle, resolving, running, done
    request,      \* the request of the current call
    trace,        \* the steps the current call has run, in order
    handlerArgs,  \* the argument object passed to the tool handler
    handlerOutcome, \* how the tool handler's promise settled
    response,     \* what the request handler gave its caller
    probe,        \* a direct call of a schema manager function and its result
    before,       \* the two maps as reloadSchemas found them, and the names
                  \* whose cached validator is older than that reloadSchemas
    list,         \* the ListTools request handler and its loadSchemas call
    run,          \* a tool handler invocation: its environment and outcome
    dev           \* the aio-app-dev handler: child process, timers, promise

vars == <<dir, schemas, zodSchemas, load, callPc, request, trace, handlerArgs,
          handlerOutcome, response, probe, before, list, run, dev>>
handlerVars == <<list, run, dev>>
storeVars == <<schemas, zodSchemas, load>>
callVars == <<callPc, request, trace, handlerArgs, handlerOutcome, response>>

NoOutcome == [kind |-> "none", message |-> ""]
NoProbe == [phase |-> "none", name |-> "", input |-> NoArgs,
            result |-> [valid |-> FALSE, data |-> EmptyObj, error |-> <<>>]]

NoHandlerArgs == NoArgs

NoSnapshot == [schemas |-> EmptyMap, zodSchemas |-> EmptyMap, kept |-> {}]
NoList == [pc |-> "idle", files |-> <<>>, i |-> 0, reload |-> FALSE, tools |-> {},
           late |-> FALSE]
NoRun == [name |-> "", args |-> EmptyObj, env |-> EmptyObj,
          outcome |-> [kind |-> "none", value |-> [content |-> <<>>], message |-> ""],
          commands |-> <<>>]
NoDev == [child |-> "none", code |-> 0, isServerReady |-> FALSE, chunks |-> 0,
          stderr |-> "", timers |-> 0, settled |-> FALSE,
          response |-> [content |-> <<>>],
          stdout |-> <<>>, probes |-> <<>>, resolutions |-> <<>>]

Init ==
    /\ dir \in Directories
    /\ schemas = EmptyMap
    /\ zodSchemas = EmptyMap
    /\ load = [pc |-> "idle", files |-> <<>>, i |-> 0, reload |-> FALSE]
    /\ callPc = "idle"
    /\ request = Request("", FALSE, "", FALSE, NoArgs)
    /\ trace = <<>>
    /\ handlerArgs = NoHandlerArgs
    /\ handlerOutcome = NoOutcome
    /\ response = NoResponse
    /\ probe = NoProbe
    /\ before = NoSnapshot
    /\ list = NoList
    /\ run = NoRun
    /\ dev = NoDev

\* ------------------------------------------------------------------------
\* Schema store: loadSchemas and reloadSchemas
\* ------------------------------------------------------------------------
\* loadSchemas up to its first suspension point, await fs.readdir
\* a reloadSchemas that clears the maps and loads nothing
BeginLoadReloadSkips(isReload) ==
    IF isReload
    THEN [pc |-> "done", files |-> <<>>, i |-> 0, reload |-> isReload]
    ELSE [pc |-> "readdir", files |-> <<>>, i |-> 0, reload |-> isReload]

BeginLoad(isReload) == [pc |-> "readdir", files |-> <<>>, i |-> 0, reload |-> isReload]

\* AdobeIOMCPServer.start
Start ==
    /\ load.pc = "idle"
    /\ load' = BeginLoad(FALSE)
    /\ UNCHANGED <<dir, schemas, zodSchemas, callVars, probe, before, handlerVars>>

\* readdir resolved: the .json files are kept and the loop awaits the first
\* readFile; with no file to read the load completes
ReadDir ==
    /\ load.pc = "readdir"
    /\ LET jsonFiles == SelectSeq(dir, LAMBDA f : f.isJson)
       IN  load' = [load EXCEPT !.pc = IF Len(jsonFiles) = 0 THEN "done" ELSE "files",
                                !.files = jsonFiles,
                                !.i = IF Len(jsonFiles) = 0 THEN 0 ELSE 1]
    /\ UNCHANGED <<dir, schemas, zodSchemas, callVars, probe, before, handlerVars>>

\* the loop's next position after file i was processed
NextFile(l) ==
    IF l.i = Len(l.files) THEN [l EXCEPT !.pc = "done"] ELSE [l EXCEPT !.i = l.i + 1]

\* the catch clause of loadSchemas logs and rethrows
LoadFailed(l) == [l EXCEPT !.pc = "failed"]

\* one iteration of the loop of a loadSchemas call l on the maps schs and
\* zods: readFile resolved, JSON.parse, safeParse, schemas.set and
\* createZodSchema; `compiled` holds the name whose validator was created
LoadFile(l, schs, zods) ==
    LET schema == l.files[l.i]
        kept == [load |-> l, schemas |-> schs, zodSchemas |-> zods, compiled |-> {}]
    IN  IF ~schema.parses
        THEN [kept EXCEPT !.load = LoadFailed(l)]
        ELSE IF ~ToolInputSchemaOk(schema)
        THEN [kept EXCEPT !.load = NextFile(l)]
        ELSE LET set == [kept EXCEPT !.schemas = MapSet(schs, schema.name, schema)]
             IN  IF ~Compiles(schema)
                 THEN [set EXCEPT !.load = NextFile(l)]
                 ELSE IF CompileThrows(schema)
                 THEN [set EXCEPT !.load = LoadFailed(l)]
                 ELSE [set EXCEPT !.load = NextFile(l),
                                  !.zodSchemas = MapSet(zods, schema.name,
                                                        createZodSchema(schema)),
                                  !.compiled = {schema.name}]

ReadFile ==
    /\ load.pc = "files"
    /\ LET after == LoadFile(load, schemas, zodSchemas)
       IN  /\ load' = after.load
           /\ schemas' = after.schemas
           /\ zodSchemas' = after.zodSchemas
           /\ before' = [before EXCEPT !.kept = @ \ after.compiled]
    /\ UNCHANGED <<dir, callVars, probe, handlerVars>>

\* Map.clear() of a name -> value map
Clear(map) == EmptyMap

\* reloadSchemas: both maps are cleared and loadSchemas begins
Reload ==
    /\ load.pc \in {"done", "failed"}
    /\ schemas' = Clear(schemas)
    /\ zodSchemas' = Clear(zodSchemas)
    /\ load' = BeginLoad(TRUE)
    /\ before' = [schemas |-> schemas, zodSchemas |-> zodSchemas,
                  kept |-> DOMAIN zodSchemas']
    /\ UNCHANGED <<dir, callVars, probe, handlerVars>>

\* ------------------------------------------------------------------------
\* Request router: the CallTool request handler
\* ------------------------------------------------------------------------
\* a router that goes on after a failed envelope validation
EnvelopeRejectedNever(requestValidation) == FALSE

\* if (!requestValidation.valid) return the invalid-request response
EnvelopeRejected(requestValidation) == ~requestValidation.valid

\* a router that goes on after a failed argument validation
InputRejectedNever(validation) == FALSE

\* if (!validation.valid) return the validation-failed response
InputRejected(validation) == ~validation.valid

\* the handler from its entry to its first suspension point: envelope
\* validation, argument validation, default resolution, and the call of
\* getToolHandler whose promise is awaited
CallStart(req) ==
    /\ callPc \in {"idle", "done"}
    /\ request' = req
    /\ handlerOutcome' = NoOutcome
    /\ LET requestValidation == validateToolRequest(req)
           validation == validateInput(zodSchemas, req.name, req.args)
       IN  IF EnvelopeRejected(requestValidation)
           THEN /\ trace' = <<"validateToolRequest">>
                /\ response' = InvalidRequest(requestValidation.error)
                /\ handlerArgs' = NoHandlerArgs
                /\ callPc' = "done"
           ELSE IF InputRejected(validation)
           THEN /\ trace' = <<"validateToolRequest", "validateInput">>
                /\ response' = InvalidInput(validation.error)
                /\ handlerArgs' = NoHandlerArgs
                /\ callPc' = "done"
           ELSE IF ApplyDefaultsThrows(schemas, validation.data, req.name)
           THEN /\ trace' = <<"validateToolRequest", "validateInput", "applyDefaults">>
                /\ response' = RouterCatch("Cannot use 'in' operator to search for 'default' in null")
                /\ handlerArgs' = NoHandlerArgs
                /\ callPc' = "done"
           ELSE /\ trace' = <<"validateToolRequest", "validateInput", "applyDefaults",
                              "getToolHandler">>
                /\ response' = NoResponse
                /\ handlerArgs' = Args(applyDefaults(schemas, validation.data, req.name))
                /\ callPc' = "resolving"
    /\ UNCHANGED <<dir, storeVars, probe, before, handlerVars>>

\* getToolHandler's promise resolved: a null handler throws Unknown tool into
\* the catch clause, any other handler is invoked with the validated arguments
ResolveHandler ==
    /\ callPc = "resolving"
    /\ IF getToolHandler(request.name) = "null"
       THEN /\ response' = RouterCatch("Unknown tool: " \o request.name)
            /\ callPc' = "done"
            /\ UNCHANGED trace
       ELSE /\ trace' = Append(trace, "toolHandler")
            /\ callPc' = "running"
            /\ UNCHANGED response
    /\ UNCHANGED <<dir, storeVars, request, handlerArgs, handlerOutcome, probe, before, handlerVars>>

\* the tool handler's promise resolved with its response
HandlerReturn ==
    /\ callPc = "running"
    /\ handlerOutcome' = [kind |-> "returned", message |-> ""]
    /\ response' = Returned(HandlerResponse(request.name))
    /\ callPc' = "done"
    /\ UNCHANGED <<dir, storeVars, request, trace, handlerArgs, probe, before, handlerVars>>

\* the tool handler threw or its promise rejected with an Error
HandlerThrow(message) ==
    /\ callPc = "running"
    /\ handlerOutcome' = [kind |-> "threw", message |-> message]
    /\ response' = RouterCatch(message)
    /\ callPc' = "done"
    /\ UNCHANGED <<dir, storeVars, request, trace, handlerArgs, probe, before, handlerVars>>

Next ==
    \/ Start
    \/ ReadDir
    \/ ReadFile
    \/ Reload
    \/ \E req \in Requests : CallStart(req)
    \/ ResolveHandler
    \/ HandlerReturn
    \/ \E m \in HandlerErrors : HandlerThrow(m)

Spec == Init /\ [][Next]_vars

\* ------------------------------------------------------------------------
\* Direct calls of validateInput on a loaded store
\* ------------------------------------------------------------------------
\* descriptors of one tool: param1 of any declared type, with or without an
\* enum, and a boolean param2 with default false; either may be required
ProbeTypes == {"string", "boolean", "integer", "number", "object", "array"}

ProbeEnums ==
    { [has |-> FALSE, values |-> <<>>],
      [has |-> TRUE, values |-> <<Str("a"), Str("b")>>],
      [has |-> TRUE, values |-> <<Whole("0"), Whole("1")>>] }

ProbeDoc(type, enum, required) ==
    Doc("probe-tool.json", "probe-tool", TRUE, "object", TRUE,
        << Prop("param1", type, enum.has, enum.values, FALSE, JsNull),
           Prop("param2", "boolean", FALSE, <<>>, TRUE, Bool("false")) >>,
        required)

ProbeDocs ==
    {ProbeDoc(t, e, r) : t \in ProbeTypes, e \in ProbeEnums,
                         r \in SUBSET {"param1", "param2"}}

Absent == [t |-> "absent", v |-> ""]

ProbeValues ==
    {Str("a"), Str("x"), Str(""), Whole("0"), Whole("1"), Frac("1.5"),
     Bool("false"), Bool("true"), JsNull, JsObj}

\* the object literal with the keys whose value is not Absent
ObjectOf(v1, v2, v3) ==
    LET all == [param1 |-> v1, param2 |-> v2, extra |-> v3]
    IN  [k \in {j \in DOMAIN all : all[j] # Absent} |-> all[k]]

ProbeInputs ==
    {Args(ObjectOf(v1, v2, v3)) :
        v1 \in ProbeValues \cup {Absent},
        v2 \in {Absent, Bool("false"), Bool("true"), Str("x"), Whole("0")},
        v3 \in {Absent, Str("e")}}
    \cup {NoArgs}

\* the store after start() loaded a directory holding one descriptor
InitValidate ==
    /\ \E d \in ProbeDocs :
          /\ dir = <<d>>
          /\ schemas = MapSet(EmptyMap, d.name, d)
          /\ zodSchemas = MapSet(EmptyMap, d.name, createZodSchema(d))
          /\ load = [pc |-> "done", files |-> <<d>>, i |-> 1, reload |-> FALSE]
    /\ callPc = "idle"
    /\ request = Request("", FALSE, "", FALSE, NoArgs)
    /\ trace = <<>>
    /\ handlerArgs = NoHandlerArgs
    /\ handlerOutcome = NoOutcome
    /\ response = NoResponse
    /\ probe = NoProbe
    /\ before = NoSnapshot
    /\ list = NoList
    /\ run = NoRun
    /\ dev = NoDev

\* sdkSchemaManager.validateInput(name, input)
ProbeValidate(name, input) ==
    /\ probe' = [phase |-> "validateInput", name |-> name, input |-> input,
                 result |-> validateInput(zodSchemas, name, input)]
    /\ UNCHANGED <<dir, storeVars, callVars, before, handlerVars>>

NextValidate == \E input \in ProbeInputs : ProbeValidate("probe-tool", input)

SpecValidate == InitValidate /\ [][NextValidate]_vars

\* ------------------------------------------------------------------------
\* Properties of the schema store and the request router
\* ------------------------------------------------------------------------
\* a document that is loaded and compiled without an exception
LoadableDoc(d) == d.parses /\ ToolInputSchemaOk(d) /\ ~CompileThrows(d)

\* a document that is not JSON or fails the descriptor shape
MalformedDoc(d) == ~d.parses \/ ~ToolInputSchemaOk(d)

\* a step of the router from a request's arrival to its first suspension
IsCallStart == callPc \in {"idle", "done"} /\ UNCHANGED <<storeVars, probe, before, handlerVars>>

TextOf(resp) == resp.value.content[1].text

\* {content: [{type: 'text', text}]} with exactly one block
WellFormed(value) ==
    /\ DOMAIN value = {"content"}
    /\ Len(value.content) = 1
    /\ DOMAIN value.content[1] = {"type", "text"}
    /\ value.content[1].type = "text"
    /\ Len(value.content[1].text) > 0

\* C1: when every document of the directory passes shape validation, the
\* names of the descriptor index are the names of the validator cache in
\* every reachable state
C1_LockStep ==
    (\A i \in 1..Len(dir) : LoadableDoc(dir[i]))
        => DOMAIN schemas = DOMAIN zodSchemas

\* C2: the CallTool request handler never rejects, and once a call is done
\* its caller holds a response with exactly one text block
C2_AlwaysToolResponse ==
    /\ response.kind # "threw"
    /\ callPc = "done" => (response.kind = "returned" /\ WellFormed(response.value))

C2_Witness ==
    /\ callPc = "done"
    /\ handlerOutcome.kind = "threw"
    /\ response.kind = "returned"

PipelineSteps ==
    <<"validateToolRequest", "validateInput", "applyDefaults", "getToolHandler",
      "toolHandler">>

IsPrefix(s, t) == Len(s) <= Len(t) /\ \A i \in 1..Len(s) : s[i] = t[i]

\* C3: the steps of a call run in the order envelope validation, argument
\* validation, default resolution, handler resolution, handler invocation;
\* applyDefaults runs only on arguments validateInput accepted, and the
\* handler is invoked only with the result of applyDefaults on them
C3_StepOrder ==
    [][ /\ IsPrefix(trace', PipelineSteps)
        /\ (IsCallStart /\ Mentions(trace', "applyDefaults"))
              => /\ validateToolRequest(request').valid
                 /\ validateInput(zodSchemas, request'.name, request'.args).valid
        /\ (IsCallStart /\ callPc' = "resolving")
              => handlerArgs' =
                    Args(applyDefaults(schemas,
                            validateInput(zodSchemas, request'.name, request'.args).data,
                            request'.name))
        /\ Mentions(trace', "toolHandler")
              => (handlerArgs'.defined /\ handlerArgs' = handlerArgs) ]_vars

C3_Witness ==
    /\ callPc = "running"
    /\ trace = PipelineSteps
    /\ handlerArgs = Args([param1 |-> Str("x"), param2 |-> Bool("false")])

\* C4: a request that fails the envelope validation is answered with the
\* invalid-request text carrying the validation error, and none of
\* validateInput, applyDefaults, getToolHandler or a handler runs for it
C4_EnvelopeFailureStops ==
    (callPc # "idle" /\ EnvelopeIssues(request) # <<>>)
        => /\ callPc = "done"
           /\ trace = <<"validateToolRequest">>
           /\ response.kind = "returned"
           /\ WellFormed(response.value)
           /\ TextOf(response) =
                 <<"(x) Invalid request format: ", "Invalid tool request: ">>
                 \o Join(EnvelopeIssues(request), ", ")
           /\ ~handlerArgs.defined
           /\ handlerOutcome.kind = "none"

C4_Witness ==
    /\ callPc = "done"
    /\ ~request.hasName
    /\ TextOf(response) =
          <<"(x) Invalid request format: ", "Invalid tool request: ", "Required">>

\* C5: a call with a valid envelope naming a tool with no compiled validator
\* is answered with the validation-failed text carrying Schema not found and
\* the name; no handler is resolved or invoked and nothing is thrown
C5_SchemaNotFound ==
    [][ (/\ IsCallStart
         /\ EnvelopeIssues(request') = <<>>
         /\ request'.name \notin DOMAIN zodSchemas)
            => /\ callPc' = "done"
               /\ response' =
                     Returned(TextResponse(<<"(x) Input validation failed: ",
                                             "Schema not found: ", request'.name>>))
               /\ trace' = <<"validateToolRequest", "validateInput">>
               /\ ~handlerArgs'.defined
               /\ handlerOutcome'.kind = "none" ]_vars

C5_Witness ==
    /\ callPc = "done"
    /\ request.name = "aio-where"
    /\ "aio-where" \in DOMAIN schemas
    /\ response.kind = "returned"
    /\ TextOf(response) =
          <<"(x) Input validation failed: ", "Schema not found: ", "aio-where">>

\* C6: when the handler of a validated call throws or rejects with an error
\* of message m, the response is the single text Error: m
C6_HandlerErrorText ==
    handlerOutcome.kind = "threw"
        => /\ callPc = "done"
           /\ response.kind = "returned"
           /\ response.value =
                 [content |-> << [type |-> "text",
                                  text |-> <<"Error: ", handlerOutcome.message>>] >>]

C6_Witness ==
    /\ handlerOutcome = [kind |-> "threw",
                         message |-> "Cannot read properties of null (reading 'includes')"]
    /\ trace = PipelineSteps
    /\ response.kind = "returned"

\* C7: a name that passed argument validation and has no handler in the
\* dispatch table is answered with Error: Unknown tool: name, and no handler
\* runs for the call
C7_UnknownTool ==
    (/\ callPc \in {"running", "done"}
     /\ Mentions(trace, "getToolHandler")
     /\ request.name \notin HandlerNames)
        => /\ callPc = "done"
           /\ response.kind = "returned"
           /\ response.value =
                 [content |-> << [type |-> "text",
                                  text |-> <<"Error: ",
                                             "Unknown tool: " \o request.name>>] >>]
           /\ ~Mentions(trace, "toolHandler")
           /\ handlerOutcome.kind = "none"

C7_Witness ==
    /\ callPc = "done"
    /\ request.name = "example-tool"
    /\ trace = SubSeq(PipelineSteps, 1, 4)
    /\ response.kind = "returned"
    /\ TextOf(response) = <<"Error: ", "Unknown tool: example-tool">>

\* C8: with one malformed document among N >= 1 valid ones, in any order,
\* the load does not fail and, once done, the index holds exactly the names
\* of the N valid documents
C8_MalformedSkipped ==
    LET malformed == {i \in 1..Len(dir) : MalformedDoc(dir[i])}
        valid == {i \in 1..Len(dir) : LoadableDoc(dir[i])}
    IN  (/\ Cardinality(malformed) = 1
         /\ Cardinality(valid) >= 1
         /\ malformed \cup valid = 1..Len(dir))
            => /\ load.pc # "failed"
               /\ load.pc = "done" => DOMAIN schemas = {dir[i].name : i \in valid}

\* ------------------------------------------------------------------------
\* Properties of validateInput
\* ------------------------------------------------------------------------
\* the value is of the declared JSON-schema type
TypeMatches(type, val) ==
    CASE type = "string" -> val.t = "string"
      [] type = "boolean" -> val.t = "boolean"
      [] type = "integer" -> val.t = "integer"
      [] type = "number" -> val.t \in {"integer", "float"}
      [] type = "object" -> val.t = "object"
      [] OTHER -> TRUE

\* the object violates the rule of the declared property: required and
\* missing, of the wrong type, or outside the enum
Violates(propSchema, required, obj) ==
    IF propSchema.key \notin DOMAIN obj
    THEN propSchema.key \in required
    ELSE \/ ~TypeMatches(propSchema.type, obj[propSchema.key])
         \/ /\ propSchema.hasEnum
            /\ \A i \in 1..Len(propSchema.enum) : propSchema.enum[i] # obj[propSchema.key]

ViolatedKeys(schema, obj) ==
    {schema.properties[i].key : i \in
        {j \in 1..Len(schema.properties) :
            Violates(schema.properties[j], schema.required, obj)}}

\* C9: validateInput rejects an object that lacks a required property with
\* an error text containing the property's name, and accepts an object whose
\* required properties are present when every declared property it carries
\* has a value of the declared type (properties without enum)
C9_RequiredReportedByName ==
    (probe.phase = "validateInput" /\ probe.input.defined)
        => LET schema == schemas[probe.name]
               obj == probe.input.obj
               missing == {k \in schema.required : k \notin DOMAIN obj}
           IN  /\ missing # {}
                    => /\ ~probe.result.valid
                       /\ \A k \in missing : Mentions(probe.result.error, k)
               /\ (/\ missing = {}
                   /\ \A i \in 1..Len(schema.properties) :
                         /\ ~schema.properties[i].hasEnum
                         /\ schema.properties[i].key \in DOMAIN obj
                               => TypeMatches(schema.properties[i].type,
                                              obj[schema.properties[i].key]))
                    => probe.result.valid

\* C10: when an object violates the rules of k >= 1 declared properties, the
\* error of validateInput names every one of the k properties
C10_EveryViolationReported ==
    (probe.phase = "validateInput" /\ probe.input.defined)
        => LET violated == ViolatedKeys(schemas[probe.name], probe.input.obj)
           IN  violated # {}
                  => /\ ~probe.result.valid
                     /\ \A k \in violated : Mentions(probe.result.error, k)

\* C11: for a property that declares enum, whatever its base type, a present
\* value is accepted if and only if it is one of the listed literals (the
\* other property of the object being in order)
C11_EnumExact ==
    (probe.phase = "validateInput" /\ probe.input.defined)
        => LET schema == schemas[probe.name]
               obj == probe.input.obj
               p1 == schema.properties[1]
           IN  (/\ p1.hasEnum
                /\ p1.type \in {"string", "integer", "number", "boolean"}
                /\ p1.key \in DOMAIN obj
                /\ ~Violates(schema.properties[2], schema.required, obj))
                  => (probe.result.valid
                        <=> \E i \in 1..Len(p1.enum) : p1.enum[i] = obj[p1.key])

\* ---- applyDefaults called directly on a loaded store ----

DefaultChoices == {[has |-> FALSE, value |-> JsNull], [has |-> TRUE, value |-> Str("d")]}

\* param1 and param2 with or without a default; optionally a third property
\* whose name is one every object inherits
DefaultsDoc(d1, d2, inherited) ==
    Doc("probe-tool.json", "probe-tool", TRUE, "object", TRUE,
        << Prop("param1", "string", FALSE, <<>>, d1.has, d1.value),
           Prop("param2", "boolean", FALSE, <<>>, d2, IF d2 THEN Bool("true") ELSE JsNull) >>
        \o (IF inherited
            THEN << Prop("constructor", "string", FALSE, <<>>, TRUE, Str("c")) >>
            ELSE << >>),
        {})

DefaultsDocs ==
    {DefaultsDoc(d1, d2, inh) : d1 \in DefaultChoices, d2 \in BOOLEAN, inh \in BOOLEAN}
    \cup {Doc("probe-tool.json", "probe-tool", TRUE, "object", FALSE, <<>>, {})}

DefaultsInputs ==
    {ObjectOf(v1, v2, v3) :
        v1 \in {Absent, Str(""), Str("x"), Whole("0"), Bool("false")},
        v2 \in {Absent, Bool("false"), Bool("true")},
        v3 \in {Absent, Str("e")}}

InitDefaults ==
    /\ \E d \in DefaultsDocs :
          /\ dir = <<d>>
          /\ schemas = MapSet(EmptyMap, d.name, d)
          /\ zodSchemas = IF d.hasProperties
                          THEN MapSet(EmptyMap, d.name, createZodSchema(d))
                          ELSE EmptyMap
          /\ load = [pc |-> "done", files |-> <<d>>, i |-> 1, reload |-> FALSE]
    /\ callPc = "idle"
    /\ request = Request("", FALSE, "", FALSE, NoArgs)
    /\ trace = <<>>
    /\ handlerArgs = NoHandlerArgs
    /\ handlerOutcome = NoOutcome
    /\ response = NoResponse
    /\ probe = NoProbe
    /\ before = NoSnapshot
    /\ list = NoList
    /\ run = NoRun
    /\ dev = NoDev

\* sdkSchemaManager.applyDefaults(input, name): the returned object, whether
\* it is the caller's object, and the caller's object after the call
ProbeApplyDefaults(name, input) ==
    /\ probe' = [phase |-> "applyDefaults", name |-> name, input |-> Args(input),
                 result |-> [data |-> applyDefaults(schemas, input, name),
                             isInput |-> ApplyDefaultsReturnsInput(schemas, name),
                             inputAfter |-> input]]
    /\ UNCHANGED <<dir, storeVars, callVars, before, handlerVars>>

NextDefaults ==
    \E name \in {"probe-tool", "missing-tool"}, input \in DefaultsInputs :
        ProbeApplyDefaults(name, input)

SpecDefaults == InitDefaults /\ [][NextDefaults]_vars

\* C12: applyDefaults sets a declared property to its default exactly when
\* the property declares one and the key is absent from the input; present
\* values (false, 0, "" included) are kept, and an absent property without a
\* default stays absent
C12_DefaultsExactlyWhenAbsent ==
    (/\ probe.phase = "applyDefaults"
     /\ probe.name \in DOMAIN schemas
     /\ schemas[probe.name].hasProperties)
        => LET props == schemas[probe.name].properties
               input == probe.input.obj
               data == probe.result.data
           IN  \A i \in 1..Len(props) :
                  LET key == props[i].key
                  IN  IF key \in DOMAIN input
                      THEN key \in DOMAIN data /\ data[key] = input[key]
                      ELSE IF props[i].hasDefault
                           THEN key \in DOMAIN data /\ data[key] = props[i].default
                           ELSE key \notin DOMAIN data

\* C13: applyDefaults leaves the object it was given as it was and returns
\* an object other than that one, whatever the input and the schema name
C13_NewObjectAlways ==
    probe.phase = "applyDefaults"
        => /\ probe.result.inputAfter = probe.input.obj
           /\ ~probe.result.isInput

\* C14: for a call that passes validation, the argument object handed to the
\* handler is exactly the validated arguments (the declared keys of the
\* request's arguments) plus the declared default of every declared property
\* that was absent
C14_HandlerGetsDefaults ==
    [][(IsCallStart /\ callPc' = "resolving")
        => LET props == schemas[request'.name].properties
               obj == request'.args.obj
               declared == {props[i].key : i \in 1..Len(props)}
               defaulted == {props[i].key : i \in
                               {j \in 1..Len(props) :
                                   /\ props[j].key \notin DOMAIN obj
                                   /\ props[j].hasDefault}}
               got == handlerArgs'.obj
           IN  /\ handlerArgs'.defined
               /\ DOMAIN got = (DOMAIN obj \cap declared) \cup defaulted
               /\ \A k \in DOMAIN obj \cap declared : got[k] = obj[k]
               /\ \A i \in 1..Len(props) :
                     props[i].key \in defaulted => got[props[i].key] = props[i].default
      ]_vars

C14_Witness ==
    /\ callPc = "done"
    /\ handlerOutcome.kind = "returned"
    /\ request.args = Args([param1 |-> Str("x")])
    /\ handlerArgs = Args([param1 |-> Str("x"), param2 |-> Bool("false")])

\* ------------------------------------------------------------------------
\* The store with every request handler that reaches it
\* ------------------------------------------------------------------------
\* every document of the directory loads: loadSchemas resolves
LoadSucceeds ==
    \A i \in 1..Len(dir) :
        dir[i].isJson => (dir[i].parses /\ (ToolInputSchemaOk(dir[i]) => ~CompileThrows(dir[i])))

\* the startup load resolved, possibly followed by reloads
StartupCompleted == LoadSucceeds /\ (load.reload \/ load.pc = "done")

\* the ListTools request handler up to its first suspension point:
\* listToolSchemas calls loadSchemas when the descriptor index is empty,
\* otherwise it answers with getAllSchemas at once; `late` records that the
\* request arrived after the startup load had completed
ListTools ==
    /\ list.pc \in {"idle", "done", "failed"}
    /\ list' = IF DOMAIN schemas = {}
               THEN [pc |-> "readdir", files |-> <<>>, i |-> 0, reload |-> FALSE,
                     tools |-> {}, late |-> StartupCompleted]
               ELSE [pc |-> "done", files |-> <<>>, i |-> 0, reload |-> FALSE,
                     tools |-> DOMAIN schemas, late |-> StartupCompleted]
    /\ UNCHANGED <<dir, storeVars, callVars, probe, before, run, dev>>

\* the names getAllSchemas returns once the handler's loadSchemas resolved
Listed(l, schs) == IF l.pc = "done" THEN [l EXCEPT !.tools = DOMAIN schs] ELSE l

\* readdir of the handler's loadSchemas resolved
ListReadDir ==
    /\ list.pc = "readdir"
    /\ LET jsonFiles == SelectSeq(dir, LAMBDA f : f.isJson)
           l == [list EXCEPT !.pc = IF Len(jsonFiles) = 0 THEN "done" ELSE "files",
                             !.files = jsonFiles,
                             !.i = IF Len(jsonFiles) = 0 THEN 0 ELSE 1]
       IN  list' = Listed(l, schemas)
    /\ UNCHANGED <<dir, storeVars, callVars, probe, before, run, dev>>

\* one iteration of the loop of the handler's loadSchemas
ListReadFile ==
    /\ list.pc = "files"
    /\ LET after == LoadFile(list, schemas, zodSchemas)
       IN  /\ list' = Listed(after.load, after.schemas)
           /\ schemas' = after.schemas
           /\ zodSchemas' = after.zodSchemas
           /\ before' = [before EXCEPT !.kept = @ \ after.compiled]
    /\ UNCHANGED <<dir, load, callVars, probe, run, dev>>

StoreRequests ==
    {Request("tools/call", TRUE, "aio-login", TRUE, Args([param1 |-> Str("x")])),
     Request("tools/call", TRUE, "aio-login", TRUE, Args(EmptyObj)),
     Request("tools/call", TRUE, "aio-where", TRUE, Args(EmptyObj))}

NextStore ==
    \/ Start
    \/ ReadDir
    \/ ReadFile
    \/ Reload
    \/ ListTools
    \/ ListReadDir
    \/ ListReadFile
    \/ \E req \in StoreRequests : CallStart(req)
    \/ ResolveHandler
    \/ HandlerReturn
    \/ \E m \in HandlerErrors : HandlerThrow(m)

SpecStore == Init /\ [][NextStore]_vars

ReloadInProgress == load.reload /\ load.pc \in {"readdir", "files"}

\* C15: while reloadSchemas is in progress, at each of its suspension points
\* the index and the validator cache are complete: with unchanged documents
\* they are what they were before the reload began, never cleared or partial
C15_ReloadNeverPartial ==
    (ReloadInProgress /\ LoadSucceeds)
        => /\ schemas = before.schemas
           /\ zodSchemas = before.zodSchemas

\* C16: once a reload over unchanged documents has completed, the index has
\* the names it had before, every validator accepts and rejects the inputs
\* its predecessor did, and no validator compiled before the reload is cached
C16_ReloadRoundTrip ==
    (load.reload /\ load.pc = "done")
        => /\ DOMAIN schemas = DOMAIN before.schemas
           /\ DOMAIN zodSchemas = DOMAIN before.zodSchemas
           /\ \A name \in RequestNames, input \in {Args(o) : o \in ArgObjects} \cup {NoArgs} :
                 validateInput(zodSchemas, name, input).valid
                    = validateInput(before.zodSchemas, name, input).valid
           /\ before.kept \cap DOMAIN zodSchemas = {}

C16_Witness ==
    /\ load.reload
    /\ load.pc = "done"
    /\ Len(load.files) >= 2
    /\ {"aio-login", "example-tool"} \subseteq DOMAIN zodSchemas
    /\ DOMAIN before.zodSchemas = DOMAIN zodSchemas

\* C20: after the startup load has completed, a step that is not a step of
\* reloadSchemas (a step of a call request, or of a list-tools request that
\* arrived after the startup load completed) leaves the descriptor index and
\* the validator cache unchanged
C20_OnlyReloadMutates ==
    [][(/\ StartupCompleted
        /\ load' = load
        /\ list' # list => list.late)
          => UNCHANGED <<schemas, zodSchemas>>]_vars

\* ------------------------------------------------------------------------
\* Tool handlers
\* ------------------------------------------------------------------------
\* stdout chunks the child of one aio-app-dev invocation writes
MaxChunks == 2

\* JavaScript truthiness of the argument `key`
Truthy(args, key) ==
    /\ key \in DOMAIN args
    /\ args[key] \notin {Bool("false"), Str(""), Whole("0"), JsNull}

Flag(cond, tokens) == IF cond THEN tokens ELSE <<>>

StrOf(args, key) == args[key].v

\* the HTTPS requests are recorded with the commands: method and target
HttpsRequest(method, target) == <<"https", method, target>>

\* the response of every handler that finds no app.config.yaml
NoAppConfig ==
    TextResponse(<<"(x) Error: No app.config.yaml found in current directory">>)

\* ---- aio-app-dev ----
PortConflict == TextResponse(<<"(x) **Port Conflict Detected!**">>)

createSuccessResponse ==
    TextResponse(<<"**Adobe I/O App Development Server Started Successfully!**">>)

StartedNotReady == TextResponse(<<"(!) **Server Started But Not Ready**">>)

\* what the chunks of stderr contain; the empty stderr is reported as
\* 'Unknown error occurred'
StderrKinds == {"EADDRINUSE", "Not a valid application root folder", "login", "other"}

FailedToStart(stderr) ==
    TextResponse(<<"(x) **Failed to start Adobe I/O App development server!**",
                   IF stderr = "" THEN "Unknown error occurred" ELSE stderr,
                   IF stderr = "EADDRINUSE" THEN "**Port Conflict**"
                   ELSE IF stderr = "Not a valid application root folder"
                        THEN "**Invalid Project**"
                   ELSE IF stderr = "login" THEN "**Authentication Required**"
                   ELSE "**Troubleshooting**">>)

ProcessError == TextResponse(<<"(x) **Process Error**: ", "spawn error">>)

\* a promise that takes the value of the latest call of resolve
ResolveLatest(d, value) ==
    [d EXCEPT !.settled = TRUE, !.response = value, !.resolutions = Append(@, value)]

\* resolve(value) of the handler's promise: the first call settles it;
\* resolutions keeps every value resolve was called with, in call order
Resolve(d, value) ==
    IF d.settled THEN [d EXCEPT !.resolutions = Append(@, value)]
    ELSE [d EXCEPT !.settled = TRUE, !.response = value,
                   !.resolutions = Append(@, value)]

\* waitForServerReady: up to maxAttempts probes of the port, one second
\* apart; first is the attempt at which the server first answers 401
\* (0: it never does)
maxAttempts == 30

waitForServerReady(first) == first \in 1..maxAttempts

ProbeAnswers == {0, 1, maxAttempts, maxAttempts + 1}

\* what a stdout chunk contains: no marker, a readiness marker other than the
\* terminate line, the line 'press CTRL+C to terminate the dev environment',
\* or 'press CTRL+C' outside that line
ChunkKinds == {"other", "Your actions:", "press CTRL+C to terminate the dev environment",
               "press CTRL+C"}

\* handleAioAppDev up to the promise it returns: the project check, the port
\* check and the spawn of the child
DevInvoke(args, isProject, isPortAvailable) ==
    /\ run.name = ""
    /\ run' = [run EXCEPT !.name = "aio-app-dev", !.args = args,
                          !.env = [isProject |-> isProject,
                                   isPortAvailable |-> isPortAvailable],
                          !.commands =
                              Flag(isProject, <<HttpsRequest("GET", "starter-kit/info")>>)
                              \o Flag(isProject /\ isPortAvailable,
                                      << <<"aio", "app", "dev">>
                                         \o Flag(Truthy(args, "extension"),
                                                 <<"-e", StrOf(args, "extension")>>)
                                         \o Flag(Truthy(args, "open"), <<"-o">>)
                                         \o Flag(Truthy(args, "verbose"), <<"-v">>) >>)]
    /\ dev' = IF ~isProject THEN Resolve(dev, NoAppConfig)
              ELSE IF ~isPortAvailable THEN Resolve(dev, PortConflict)
              ELSE [dev EXCEPT !.child = "running"]
    /\ UNCHANGED <<dir, storeVars, callVars, probe, before, list>>

\* process.stdout.on('data')
DevStdout(kind) ==
    /\ dev.child = "running"
    /\ dev.chunks < MaxChunks
    /\ LET ready == dev.isServerReady
                    \/ kind \in {"Your actions:",
                                 "press CTRL+C to terminate the dev environment"}
           timer == ready /\ kind \in {"press CTRL+C to terminate the dev environment",
                                       "press CTRL+C"}
       IN  dev' = [dev EXCEPT !.isServerReady = ready,
                              !.chunks = @ + 1,
                              !.stdout = Append(@, kind),
                              !.timers = IF timer THEN @ + 1 ELSE @]
    /\ UNCHANGED <<dir, storeVars, callVars, probe, before, list, run>>

\* process.stderr.on('data')
DevStderr(kind) ==
    /\ dev.child = "running"
    /\ dev.stderr = ""
    /\ dev' = [dev EXCEPT !.stderr = kind]
    /\ UNCHANGED <<dir, storeVars, callVars, probe, before, list, run>>

\* the timer callback: waitForServerReady polled the port and returned
DevTimer(first) ==
    /\ dev.timers > 0
    /\ LET serverReady == waitForServerReady(first)
       IN  dev' = Resolve([dev EXCEPT !.timers = @ - 1, !.probes = Append(@, first)],
                          IF serverReady THEN createSuccessResponse ELSE StartedNotReady)
    /\ UNCHANGED <<dir, storeVars, callVars, probe, before, list, run>>

\* process.on('close'): the child exited with code
DevClose(code) ==
    /\ dev.child = "running"
    /\ LET closed == [dev EXCEPT !.child = "closed", !.code = code]
       IN  dev' = IF code # 0 /\ ~dev.isServerReady
                  THEN Resolve(closed, FailedToStart(dev.stderr))
                  ELSE closed
    /\ UNCHANGED <<dir, storeVars, callVars, probe, before, list, run>>

\* process.on('error'): the child could not be spawned
DevError ==
    /\ dev.child = "running"
    /\ dev.chunks = 0
    /\ dev' = Resolve([dev EXCEPT !.child = "errored"], ProcessError)
    /\ UNCHANGED <<dir, storeVars, callVars, probe, before, list, run>>

\* ---- the collaborators of the handlers ----
\* what executeCommand resolves with: success, the markers the output
\* contains, and the error, a string (the markers it contains) or null
ExecutionResult(success, output, error) ==
    [success |-> success, output |-> output, error |-> error]

NullError == [null |-> TRUE, has |-> {}]
ErrorWith(markers) == [null |-> FALSE, has |-> markers]

\* `${result.error}` inside a template literal
ErrorText(error) == IF error.null THEN "null" ELSE "stderr of the command"

\* a handler invocation's result: the value its promise resolved with, or the
\* error it rejected with, and the external commands it executed
Ret(value, commands) ==
    [outcome |-> [kind |-> "returned", value |-> value, message |-> ""],
     commands |-> commands]

Threw(message, commands) ==
    [outcome |-> [kind |-> "threw", value |-> [content |-> <<>>], message |-> message],
     commands |-> commands]

\* the TypeError of reading a property of null
NullIncludes == "Cannot read properties of null (reading 'includes')"

\* ---- aio-login ----
\* a handler that takes anything on stderr for a failure
handleAioLoginOnStderr(args, env) ==
    IF env.result.success /\ env.result.error \in {NullError, ErrorWith({})}
    THEN Ret(TextResponse(<<"(ok) Adobe I/O login completed successfully!">>),
             << <<"aio", "login">> >>)
    ELSE Ret(TextResponse(<<"(x) Adobe I/O login failed!", ErrorText(env.result.error)>>),
             << <<"aio", "login">> >>)

handleAioLogin(args, env) ==
    LET cmdArgs == <<"aio", "login">>
                   \o Flag(Truthy(args, "force"), <<"-f">>)
                   \o Flag(Truthy(args, "context"), <<"-c", StrOf(args, "context")>>)
                   \o Flag("openBrowser" \in DOMAIN args
                             /\ args["openBrowser"] = Bool("false"), <<"--no-open">>)
                   \o Flag(Truthy(args, "verbose"), <<"-v">>)
        result == env.result
    IN  IF result.success
        THEN Ret(TextResponse(<<"(ok) Adobe I/O login completed successfully!">>),
                 <<cmdArgs>>)
        ELSE Ret(TextResponse(<<"(x) Adobe I/O login failed!", ErrorText(result.error)>>),
                 <<cmdArgs>>)

\* ---- aio-where ----
PleaseConfirm == "(!) **Please confirm:** Do you want to deploy to this org/project/workspace?"

\* a handler whose failure text does not start with the failure marker
handleAioWhereUnmarked(args, env) ==
    IF env.whereResult.success
    THEN Ret(TextResponse(<<"**Current Adobe I/O Configuration:**", PleaseConfirm>>),
             << <<"aio", "where">> >>)
    ELSE Ret(TextResponse(<<"Could not get Adobe I/O configuration",
                            ErrorText(env.whereResult.error)>>),
             << <<"aio", "where">> >>)

handleAioWhere(args, env) ==
    LET cmdArgs == <<"aio", "where">>
        result == env.whereResult
    IN  IF result.success
        THEN Ret(TextResponse(<<"**Current Adobe I/O Configuration:**", PleaseConfirm>>),
                 <<cmdArgs>>)
        ELSE Ret(TextResponse(<<"(x) Failed to get Adobe I/O configuration",
                                ErrorText(result.error)>>),
                 <<cmdArgs>>)

\* ---- aio-app-use ----
\* a handler that does not look at result.success
handleAioAppUseAlwaysSucceeds(args, env) ==
    IF ~env.isProject
    THEN Ret(NoAppConfig, <<>>)
    ELSE Ret(TextResponse(<<"(ok) **Runtime Namespace Configured Successfully!**">>),
             << <<"aio", "app", "use", "--global", "--no-input">> >>)

handleAioAppUse(args, env) ==
    LET cmdArgs == <<"aio", "app", "use", "--global", "--no-input">>
                   \o Flag(Truthy(args, "verbose"), <<"--verbose">>)
        result == env.result
    IN  IF ~env.isProject
        THEN Ret(NoAppConfig, <<>>)
        ELSE IF result.success
        THEN Ret(TextResponse(<<"(ok) **Runtime Namespace Configured Successfully!**">>),
                 <<cmdArgs>>)
        ELSE Ret(TextResponse(<<"(x) **Runtime Namespace Configuration Failed!**",
                                ErrorText(result.error)>>),
                 <<cmdArgs>>)

\* ---- aio-app-deploy ----
\* the handler that puts the configuration message in a block of its own
handleAioAppDeployTwoBlocks(args, env) ==
    IF ~env.isProject
    THEN Ret(NoAppConfig, <<>>)
    ELSE Ret([content |-> << [type |-> "text", text |-> <<"configuration">>],
                             [type |-> "text", text |-> <<"deployment">>] >>],
             <<>>)

handleAioAppDeploy(args, env) ==
    IF ~env.isProject
    THEN Ret(NoAppConfig, <<>>)
    ELSE
    LET where == handleAioWhere([k \in {"verbose"} \cap DOMAIN args |-> args[k]], env)
        whereResult == where.outcome.value
        whereText == whereResult.content[1].text
        configMessage == SelectSeq(whereText, LAMBDA w : w # PleaseConfirm)
        cmdArgs == <<"aio", "app", "deploy">>
                   \o Flag(Truthy(args, "action"), <<"-a", StrOf(args, "action")>>)
                   \o (IF Truthy(args, "skipBuild") THEN <<"--no-build">>
                       ELSE Flag(Truthy(args, "forceBuild"), <<"--force-build">>))
                   \o Flag(Truthy(args, "skipStatic"), <<"--no-web-assets">>)
                   \o (IF Truthy(args, "skipActions") THEN <<"--no-actions">>
                       ELSE Flag(Truthy(args, "forceDeploy"), <<"--force-deploy">>))
                   \o Flag(Truthy(args, "verbose"), <<"--verbose">>)
        commands == where.commands \o <<cmdArgs>>
        result == env.result
        noActionsBuilt == "No actions built for" \in result.output
        noActionsDeployed == "No actions deployed for" \in result.output
        hasDeployedActions == "Your deployed actions:" \in result.output
        successfulDeployment == "Successful deployment" \in result.output
    IN  IF Mentions(whereText, "(x) Failed to get Adobe I/O configuration")
        THEN Ret(whereResult, where.commands)
        ELSE IF /\ result.success
                /\ hasDeployedActions \/ successfulDeployment
                /\ ~noActionsBuilt
                /\ ~noActionsDeployed
        THEN Ret(TextResponse(<<"(ok) Adobe I/O App deployment completed successfully!">>
                              \o configMessage),
                 commands)
        ELSE IF result.success /\ ~hasDeployedActions /\ ~successfulDeployment
        THEN Ret(TextResponse(<<"(x) **No actions were deployed!**">> \o configMessage),
                 commands)
        ELSE LET isNamespaceError ==
                     ~result.error.null
                     /\ "missing Adobe I/O Runtime namespace" \in result.error.has
                 isAuthError ==
                     ~result.error.null
                     /\ result.error.has \cap {"AIO_RUNTIME_NAMESPACE", "authentication",
                                               "credentials"} # {}
             IN  Ret(TextResponse(<<"(x) Adobe I/O App deployment failed!">>
                                  \o configMessage
                                  \o <<ErrorText(result.error)>>
                                  \o Flag(isNamespaceError \/ isAuthError,
                                          <<"**Suggestion**: run the aio-app-use tool">>)),
                     commands)

\* ---- commerce-event-subscribe ----
\* the remediation text selected by the chain of
\* `result.error && result.error.includes(a) || result.error.includes(b)`:
\* with a null error the right operand of || reads includes of null
CommerceRemediation(error) ==
    IF error.null THEN "TypeError"
    ELSE IF error.has \cap {"authentication", "OAuth1"} # {} THEN "**Authentication Issue**"
    ELSE IF error.has \cap {"Invalid URL", "ENOTFOUND"} # {}
         THEN "**URL Configuration Issue**"
    ELSE IF "certificate has expired" \in error.has THEN "**SSL Certificate Issue**"
    ELSE IF error.has \cap {"event", "subscription"} # {} THEN "**Event Subscription Issue**"
    ELSE IF error.has \cap {"module", "require"} # {} THEN "**Script Issue**"
    ELSE "**General Troubleshooting**"

\* the try block around package.json: read and parsed, script looked up
PackageStates == {"unreadable", "no script", "ok"}

NoScript(script) == TextResponse(<<"(x) Error: No '", script, "' script found in package.json">>)
NoPackageJson == TextResponse(<<"(x) Error: Could not read package.json: ", "ENOENT">>)

handleCommerceEventSubscribe(args, env) ==
    LET cmdArgs == <<"npm", "run", "commerce-event-subscribe">>
                   \o Flag(Truthy(args, "verbose"), <<"--verbose">>)
        result == env.result
    IN  IF ~env.isProject THEN Ret(NoAppConfig, <<>>)
        ELSE IF env.package = "no script" THEN Ret(NoScript("commerce-event-subscribe"), <<>>)
        ELSE IF env.package = "unreadable" THEN Ret(NoPackageJson, <<>>)
        ELSE IF result.success
        THEN Ret(TextResponse(<<"(ok) **Commerce Event Subscription Completed Successfully!**">>),
                 <<cmdArgs>>)
        ELSE IF CommerceRemediation(result.error) = "TypeError"
        THEN Threw(NullIncludes, <<cmdArgs>>)
        ELSE Ret(TextResponse(<<"(x) **Commerce Event Subscription Failed!**",
                                ErrorText(result.error),
                                CommerceRemediation(result.error)>>),
                 <<cmdArgs>>)

\* ---- onboard ----
\* the first test of the chain is guarded by && alone, the second one reads
\* includes of a null error
OnboardRemediation(error) ==
    IF ~error.null /\ "CANNOT_GENERATE_TOKEN" \in error.has THEN "**Authentication Issue**: token"
    ELSE IF error.null THEN "TypeError"
    ELSE IF error.has \cap {"invalid json response body", "Unexpected token"} # {}
         THEN "**API Configuration Issue**"
    ELSE IF "Invalid URL" \in error.has THEN "**URL Configuration Issue**"
    ELSE IF "certificate has expired" \in error.has THEN "**SSL Certificate Issue**"
    ELSE IF "AIO_RUNTIME_NAMESPACE" \in error.has THEN "**Runtime Namespace Issue**"
    ELSE IF error.has \cap {"authentication", "login"} # {} THEN "**Authentication Issue**"
    ELSE IF error.has \cap {"org", "project", "workspace"} # {} THEN "**Configuration Issue**"
    ELSE IF error.has \cap {"events", "event"} # {} THEN "**Event Configuration Issue**"
    ELSE "**General Troubleshooting**"

handleOnboard(args, env) ==
    LET cmdArgs == <<"npm", "run", "onboard">>
                   \o Flag(Truthy(args, "verbose"), <<"--verbose">>)
        result == env.result
    IN  IF ~env.isProject THEN Ret(NoAppConfig, <<>>)
        ELSE IF env.package = "no script" THEN Ret(NoScript("onboard"), <<>>)
        ELSE IF env.package = "unreadable" THEN Ret(NoPackageJson, <<>>)
        ELSE IF result.success
        THEN Ret(TextResponse(<<"(ok) **Adobe I/O App Onboarding Completed Successfully!**">>),
                 <<cmdArgs>>)
        ELSE IF OnboardRemediation(result.error) = "TypeError"
        THEN Threw(NullIncludes, <<cmdArgs>>)
        ELSE Ret(TextResponse(<<"(x) **Adobe I/O App Onboarding Failed!**",
                                ErrorText(result.error),
                                OnboardRemediation(result.error)>>),
                 <<cmdArgs>>)

\* ---- aio-configure-global ----
ListActions == {"list-orgs", "list-projects", "list-workspaces"}
SelectActions == {"select-org", "select-project", "select-workspace"}

\* the console resource an action is about, also the name of its argument
ResourceOf(action) ==
    IF action \in {"list-orgs", "select-org"} THEN "org"
    ELSE IF action \in {"list-projects", "select-project"} THEN "project"
    ELSE "workspace"

\* a handler that appends --verbose for every action
handleAioConfigureGlobalVerboseEverywhere(args, env) ==
    LET action == IF "action" \in DOMAIN args THEN StrOf(args, "action") ELSE "undefined"
    IN  IF action = "show-current"
        THEN Ret(TextResponse(<<"**Current Configuration:**", "workspace">>),
                 << <<"aio", "where">> \o Flag(Truthy(args, "verbose"), <<"--verbose">>) >>)
        ELSE Ret(TextResponse(<<"(x) Error: Unknown action '", action, "'.">>), <<>>)

handleAioConfigureGlobal(args, env) ==
    LET action == IF "action" \in DOMAIN args THEN StrOf(args, "action") ELSE "undefined"
        resource == ResourceOf(action)
        base == IF action \in ListActions THEN <<"aio", "console", resource, "list">>
                ELSE IF action \in SelectActions
                     THEN <<"aio", "console", resource, "select", StrOf(args, resource)>>
                ELSE <<"aio", "where">>
        cmdArgs == base \o Flag(Truthy(args, "verbose") /\ action # "show-current",
                                <<"--verbose">>)
        result == env.result
    IN  IF action \in SelectActions /\ ~Truthy(args, resource)
        THEN Ret(TextResponse(<<"(x) Error: ", resource, " name is required for '",
                                action, "' action.">>), <<>>)
        ELSE IF action \notin ListActions \cup SelectActions \cup {"show-current"}
        THEN Ret(TextResponse(<<"(x) Error: Unknown action '", action, "'.">>), <<>>)
        ELSE IF result.success
        THEN Ret(TextResponse(<<IF action \in ListActions THEN "**Available:**"
                                ELSE IF action \in SelectActions THEN "(ok) **Selected:** "
                                ELSE "**Current Configuration:**",
                                resource>>),
                 <<cmdArgs>>)
        ELSE Ret(TextResponse(<<"(x) **Configuration Change Failed!**",
                                ErrorText(result.error)>>),
                 <<cmdArgs>>)

\* ---- aio-dev-invoke ----
ServerNotRunning == TextResponse(<<"(x) **Development Server Not Running**">>)

createDiscoveryResponse(availableActions, usedConfig) ==
    IF availableActions = 0
    THEN TextResponse(<<"**Action Discovery Results**", "(x) **No actions found**">>)
    ELSE TextResponse(<<"**Action Discovery Results**", "(ok) **Found available actions**",
                        IF usedConfig THEN "Parsed from app.config.yaml"
                        ELSE "Used common action names (fallback)">>)

\* what invokeAction resolves with: a response with a 2xx status, a response
\* with another status, or the caught network error
InvokeResults == {"2xx", "other status", "Network Error"}

createInvokeResponse(actionName, result, method) ==
    TextResponse(<<IF result = "2xx" THEN "(ok) **Action Invocation Success**"
                   ELSE "(x) **Action Invocation Failed**",
                   actionName, method>>
                 \o Flag(result # "Network Error", <<"**Response Headers:**">>))

\* a handler that looks for the dev server before it looks at the project
handleAioDevInvokeServerFirst(args, env) ==
    IF ~env.isServerRunning
    THEN Ret(ServerNotRunning, <<HttpsRequest("GET", "starter-kit/info")>>)
    ELSE Ret(NoAppConfig, <<HttpsRequest("GET", "starter-kit/info")>>)

handleAioDevInvoke(args, env) ==
    LET method == IF Truthy(args, "method") THEN StrOf(args, "method") ELSE "POST"
        check == <<HttpsRequest("GET", "starter-kit/info")>>
    IN  IF ~env.isProject THEN Ret(NoAppConfig, <<>>)
        ELSE IF ~env.isServerRunning THEN Ret(ServerNotRunning, check)
        ELSE IF Truthy(args, "discoverActions")
        THEN Ret(createDiscoveryResponse(env.availableActions, env.usedConfig),
                 check \o <<HttpsRequest("GET", "every action to test")>>)
        ELSE IF ~Truthy(args, "actionName")
        THEN Ret(TextResponse(<<"(x) **Missing Required Parameter**">>), check)
        ELSE Ret(createInvokeResponse(StrOf(args, "actionName"), env.invoke, method),
                 check \o <<HttpsRequest(method, StrOf(args, "actionName"))>>)

\* ---- search-commerce-app-builder-docs ----
\* what the fetch of the worker's /query does: it rejects, answers with a
\* status outside 2xx, with a body that is not JSON, with a payload without a
\* results array, or with a payload that has one
FetchOutcomes == {"rejected", "status 500", "not JSON", "no results", "results"}

\* JSON.stringify of the result object, as the text of the one block
SearchResponse(success, detail) ==
    TextResponse(<<"{ success: ", IF success THEN "true" ELSE "false", detail, " }">>)

\* a handler that checks the query before it enters its try block
searchCommerceAppBuilderDocsUnguarded(args, env) ==
    IF ~Truthy(args, "query") \/ args["query"].t # "string"
    THEN Threw("Query must be a non-empty string", <<>>)
    ELSE IF env.fetch = "results"
    THEN Ret(SearchResponse(TRUE, "documents"), <<HttpsRequest("POST", "/query")>>)
    ELSE Ret(SearchResponse(FALSE, "fetch failed"), <<HttpsRequest("POST", "/query")>>)

searchCommerceAppBuilderDocs(args, env) ==
    LET post == <<HttpsRequest("POST", "/query")>>
        fetch == env.fetch
    IN  IF ~Truthy(args, "query") \/ args["query"].t # "string"
        THEN Ret(SearchResponse(FALSE, "Query must be a non-empty string"), <<>>)
        ELSE IF fetch = "rejected" THEN Ret(SearchResponse(FALSE, "fetch failed"), post)
        ELSE IF fetch = "status 500"
        THEN Ret(SearchResponse(FALSE, "HTTP error! status: 500"), post)
        ELSE IF fetch = "not JSON"
        THEN Ret(SearchResponse(FALSE, "Unexpected token"), post)
        ELSE IF fetch = "no results"
        THEN Ret(SearchResponse(FALSE, "Cannot read properties of undefined (reading 'length')"),
                 post)
        ELSE Ret(SearchResponse(TRUE, "documents"), post)

\* ---- invocations ----
\* the handler getToolHandler resolves for name, applied to args in env
toolHandler(name, args, env) ==
    CASE name = "aio-login" -> handleAioLogin(args, env)
      [] name = "aio-where" -> handleAioWhere(args, env)
      [] name = "aio-app-use" -> handleAioAppUse(args, env)
      [] name = "aio-app-deploy" -> handleAioAppDeploy(args, env)
      [] name = "aio-dev-invoke" -> handleAioDevInvoke(args, env)
      [] name = "aio-configure-global" -> handleAioConfigureGlobal(args, env)
      [] name = "onboard" -> handleOnboard(args, env)
      [] name = "commerce-event-subscribe" -> handleCommerceEventSubscribe(args, env)
      [] name = "search-commerce-app-builder-docs" -> searchCommerceAppBuilderDocs(args, env)

True == Bool("true")

\* the errors of an ExecutionResult: null, a text with none of the markers,
\* and a text with one of them
Errors(markers) == {NullError, ErrorWith({})} \cup {ErrorWith({m}) : m \in markers}

\* what the child process of one executeCommand call does: it cannot be
\* spawned, or it exits with a code after writing stdout and stderr
Child(spawned, code, stdout, stderr) ==
    [spawned |-> spawned, code |-> code, stdout |-> stdout, stderr |-> stderr]

SpawnFailure == ErrorWith({"spawn aio ENOENT"})

\* executeCommand(command, args): success is exit code 0, output is stdout,
\* error is stderr, or the spawn failure's message
executeCommand(child) ==
    IF ~child.spawned
    THEN ExecutionResult(FALSE, {}, SpawnFailure)
    ELSE ExecutionResult(child.code = 0, child.stdout, child.stderr)

ExitCodes == {0, 1}

Children(outputs, errors) ==
    {Child(TRUE, code, stdout, stderr) :
        code \in ExitCodes, stdout \in outputs, stderr \in errors}
    \cup {Child(FALSE, 1, {}, NullError)}

DeployMarkers ==
    {"Your deployed actions:", "Successful deployment", "No actions built for",
     "No actions deployed for"}

CommerceMarkers ==
    {"authentication", "OAuth1", "Invalid URL", "ENOTFOUND", "certificate has expired",
     "event", "subscription", "module", "require"}

OnboardMarkers ==
    {"CANNOT_GENERATE_TOKEN", "invalid json response body", "Unexpected token",
     "Invalid URL", "certificate has expired", "AIO_RUNTIME_NAMESPACE", "authentication",
     "login", "org", "project", "workspace", "events", "event"}

\* an environment in which everything succeeds
Env ==
    [isProject |-> TRUE, package |-> "ok",
     child |-> Child(TRUE, 0, {}, ErrorWith({})),
     result |-> executeCommand(Child(TRUE, 0, {}, ErrorWith({}))),
     whereChild |-> Child(TRUE, 0, {}, ErrorWith({})),
     whereResult |-> executeCommand(Child(TRUE, 0, {}, ErrorWith({}))),
     isServerRunning |-> TRUE, availableActions |-> 1, usedConfig |-> TRUE,
     invoke |-> "2xx", fetch |-> "results"]

\* env with the child of its command, and the result executeCommand makes of it
WithChild(env, c) == [env EXCEPT !.child = c, !.result = executeCommand(c)]

WithWhereChild(env, c) == [env EXCEPT !.whereChild = c, !.whereResult = executeCommand(c)]

HandlerEnvs(name) ==
    CASE name \in {"aio-login", "aio-configure-global"} ->
            {WithChild(Env, c) : c \in Children({{}}, Errors({"authentication"}))}
      [] name = "aio-where" ->
            {WithWhereChild(Env, c) : c \in Children({{}}, Errors({}))}
      [] name = "aio-app-use" ->
            {WithChild([Env EXCEPT !.isProject = p], c) :
                p \in BOOLEAN, c \in Children({{}}, Errors({}))}
      [] name = "aio-app-deploy" ->
            {WithWhereChild(WithChild([Env EXCEPT !.isProject = p], c), w) :
                p \in BOOLEAN,
                w \in Children({{}}, {ErrorWith({})}),
                c \in Children(SUBSET DeployMarkers,
                               Errors({"missing Adobe I/O Runtime namespace", "credentials"}))}
      [] name = "commerce-event-subscribe" ->
            {WithChild([Env EXCEPT !.isProject = p, !.package = k], c) :
                p \in BOOLEAN, k \in PackageStates,
                c \in Children({{}}, Errors(CommerceMarkers))}
      [] name = "onboard" ->
            {WithChild([Env EXCEPT !.isProject = p, !.package = k], c) :
                p \in BOOLEAN, k \in PackageStates,
                c \in Children({{}}, Errors(OnboardMarkers))}
      [] name = "aio-dev-invoke" ->
            {[Env EXCEPT !.isProject = p, !.isServerRunning = u, !.availableActions = n,
                         !.usedConfig = c, !.invoke = i] :
                p \in BOOLEAN, u \in BOOLEAN, n \in {0, 1}, c \in BOOLEAN,
                i \in InvokeResults}
      [] name = "search-commerce-app-builder-docs" ->
            {[Env EXCEPT !.fetch = f] : f \in FetchOutcomes}

Verbose == {EmptyObj, [verbose |-> True]}

HandlerArgs(name) ==
    CASE name = "aio-login" ->
            {EmptyObj, [force |-> True], [context |-> Str("ctx")],
             [openBrowser |-> Bool("false"), verbose |-> True]}
      [] name \in {"aio-where", "aio-app-use", "onboard", "commerce-event-subscribe"} ->
            Verbose
      [] name = "aio-app-deploy" ->
            {EmptyObj, [action |-> Str("pkg/action"), verbose |-> True],
             [skipBuild |-> True, forceBuild |-> True, skipStatic |-> True],
             [forceBuild |-> True, forceDeploy |-> True]}
      [] name = "aio-configure-global" ->
            {[action |-> Str(a)] :
                a \in ListActions \cup SelectActions \cup {"show-current", "reset"}}
            \cup {[action |-> Str(a), org |-> Str("o"), project |-> Str("p"),
                   workspace |-> Str("w"), verbose |-> True] :
                    a \in ListActions \cup SelectActions \cup {"show-current"}}
            \cup {EmptyObj, [action |-> Str("select-org"), org |-> Str("")]}
      [] name = "aio-dev-invoke" ->
            {EmptyObj, [discoverActions |-> True],
             [actionName |-> Str("starter-kit/info")],
             [actionName |-> Str("starter-kit/info"), method |-> Str("GET")]}
      [] name = "search-commerce-app-builder-docs" ->
            {EmptyObj, [query |-> Str("")], [query |-> Whole("5")],
             [query |-> Str("webhooks")]}

\* the router's `await toolHandler(validatedArgs)` for a handler that runs to
\* its end between the points where the model looks
Invoke(name, args, env) ==
    /\ run.name = ""
    /\ LET result == toolHandler(name, args, env)
       IN  run' = [name |-> name, args |-> args, env |-> env,
                   outcome |-> result.outcome, commands |-> result.commands]
    /\ UNCHANGED <<dir, storeVars, callVars, probe, before, list, dev>>

InitHandlers ==
    /\ dir = <<>>
    /\ schemas = EmptyMap
    /\ zodSchemas = EmptyMap
    /\ load = [pc |-> "idle", files |-> <<>>, i |-> 0, reload |-> FALSE]
    /\ callPc = "idle"
    /\ request = Request("", FALSE, "", FALSE, NoArgs)
    /\ trace = <<>>
    /\ handlerArgs = NoHandlerArgs
    /\ handlerOutcome = NoOutcome
    /\ response = NoResponse
    /\ probe = NoProbe
    /\ before = NoSnapshot
    /\ list = NoList
    /\ run = NoRun
    /\ dev = NoDev

NextHandlers ==
    \/ \E name \in HandlerNames \ {"aio-app-dev"} :
          \E args \in HandlerArgs(name), env \in HandlerEnvs(name) : Invoke(name, args, env)
    \/ \E args \in Verbose, isProject \in BOOLEAN, isPortAvailable \in BOOLEAN :
          DevInvoke(args, isProject, isPortAvailable)
    \/ \E kind \in ChunkKinds : DevStdout(kind)
    \/ \E kind \in StderrKinds : DevStderr(kind)
    \/ \E first \in ProbeAnswers : DevTimer(first)
    \/ \E code \in {0, 1} : DevClose(code)
    \/ DevError

SpecHandlers == InitHandlers /\ [][NextHandlers]_vars

\* C17: once the child of aio-app-dev has exited (or could not be spawned)
\* and no readiness probe is pending, the handler's promise is settled with
\* a response: every call is answered whatever the chunks and the exit code
C17_DevAlwaysAnswers ==
    (dev.child \in {"closed", "errored"} /\ dev.timers = 0) => dev.settled

\* {content: [block]} with one block of type 'text' whose text is a string
OneTextBlock(value) ==
    /\ DOMAIN value = {"content"}
    /\ Len(value.content) = 1
    /\ DOMAIN value.content[1] = {"type", "text"}
    /\ value.content[1].type = "text"
    /\ \A i \in 1..Len(value.content[1].text) : value.content[1].text[i] \in STRING

\* C18: every value one of the ten tool handlers returns, on any of its
\* return paths, has a content sequence of exactly one block of type 'text'
\* with string text
C18_OneTextBlock ==
    /\ run.outcome.kind = "returned" => OneTextBlock(run.outcome.value)
    /\ dev.settled => OneTextBlock(dev.response)

C18_Witness ==
    /\ run.name = "aio-app-deploy"
    /\ run.outcome.kind = "returned"
    /\ ~run.env.whereResult.success
    /\ run.commands = << <<"aio", "where">> >>
    /\ Mentions(run.outcome.value.content[1].text, "(x) Failed to get Adobe I/O configuration")

\* C19: when the command of commerce-event-subscribe or onboard fails, with
\* an error that is a string or null, the handler returns its own failure
\* narrative as a response and does not throw
C19_FailureNarrative ==
    (/\ run.name \in {"commerce-event-subscribe", "onboard"}
     /\ Len(run.commands) = 1
     /\ ~run.env.result.success)
        => /\ run.outcome.kind = "returned"
           /\ \/ Mentions(run.outcome.value.content[1].text,
                          "(x) **Commerce Event Subscription Failed!**")
              \/ Mentions(run.outcome.value.content[1].text,
                          "(x) **Adobe I/O App Onboarding Failed!**")

\* ------------------------------------------------------------------------
\* Properties of the handlers and of the process executor
\* ------------------------------------------------------------------------
\* the handlers that run one command and branch on result.success
CommandHandlers ==
    {"aio-login", "aio-where", "aio-app-use", "aio-app-deploy", "aio-configure-global",
     "onboard", "commerce-event-subscribe"}

SuccessNarratives ==
    {"(ok) Adobe I/O login completed successfully!",
     "**Current Adobe I/O Configuration:**",
     "(ok) **Runtime Namespace Configured Successfully!**",
     "(ok) Adobe I/O App deployment completed successfully!",
     "**Available:**", "(ok) **Selected:** ", "**Current Configuration:**",
     "(ok) **Adobe I/O App Onboarding Completed Successfully!**",
     "(ok) **Commerce Event Subscription Completed Successfully!**"}

\* the response opens with the handler's narrative of success
ReportsSuccess ==
    /\ run.outcome.kind = "returned"
    /\ run.outcome.value.content[1].text[1] \in SuccessNarratives

\* the invocation ran the command its handler is about
RanCommand ==
    /\ run.name \in CommandHandlers
    /\ Len(run.commands) = IF run.name = "aio-app-deploy" THEN 2 ELSE 1

\* the child of that command and the result executeCommand made of it
RunChild == IF run.name = "aio-where" THEN run.env.whereChild ELSE run.env.child
RunResult == IF run.name = "aio-where" THEN run.env.whereResult ELSE run.env.result

ExitedZero(child) == child.spawned /\ child.code = 0

\* C21: executeCommand resolves success=true exactly when the child exited
\* with code 0, whatever was written to stderr, and every handler that
\* branches on result.success reports success exactly for exit code 0
C21_SuccessIffExitZero ==
    RanCommand
        => /\ RunResult.success <=> ExitedZero(RunChild)
           /\ ReportsSuccess <=> ExitedZero(RunChild)

\* aio-app-deploy's own test of the output of a command that succeeded
DeployedSomething(output) ==
    /\ output \cap {"Your deployed actions:", "Successful deployment"} # {}
    /\ output \cap {"No actions built for", "No actions deployed for"} = {}

\* C21 (amended): executeCommand resolves success=true exactly when the child
\* exited with code 0, whatever was written to stderr; a handler reports
\* success only for exit code 0, and every handler but aio-app-deploy reports
\* it for every exit code 0; aio-app-deploy reports success exactly when the
\* exit code is 0 and the output names a deployment and no 'No actions' line
C21_SuccessOnlyIfExitZero ==
    RanCommand
        => /\ RunResult.success <=> ExitedZero(RunChild)
           /\ IF run.name = "aio-app-deploy"
              THEN ReportsSuccess <=> (ExitedZero(RunChild)
                                         /\ DeployedSomething(RunResult.output))
              ELSE ReportsSuccess <=> ExitedZero(RunChild)

C21_Witness ==
    /\ run.name = "aio-login"
    /\ RanCommand
    /\ run.env.child.code = 0
    /\ run.env.child.stderr = ErrorWith({"authentication"})
    /\ ReportsSuccess

ProjectHandlers ==
    {"aio-app-deploy", "aio-app-dev", "aio-app-use", "aio-dev-invoke", "onboard",
     "commerce-event-subscribe"}

\* C23: when isAioAppProject is false, each handler that checks the project
\* root returns the 'No app.config.yaml found' response and has executed no
\* command, spawned no child and sent no HTTP request
C23_NoProjectNoEffect ==
    (run.name \in ProjectHandlers /\ ~run.env.isProject)
        => /\ run.commands = <<>>
           /\ dev.child = "none"
           /\ IF run.name = "aio-app-dev"
              THEN dev.settled /\ dev.response = NoAppConfig
              ELSE run.outcome.kind = "returned" /\ run.outcome.value = NoAppConfig

C23_Witness ==
    /\ run.name = "aio-dev-invoke"
    /\ ~run.env.isProject
    /\ ~run.env.isServerRunning
    /\ run.outcome.value = NoAppConfig

\* the query of the search is a non-empty string
QueryUsable == Truthy(run.args, "query") /\ run.args["query"].t = "string"

\* the message the search reports for what went wrong
SearchError ==
    IF ~QueryUsable THEN "Query must be a non-empty string"
    ELSE CASE run.env.fetch = "rejected" -> "fetch failed"
           [] run.env.fetch = "status 500" -> "HTTP error! status: 500"
           [] run.env.fetch = "not JSON" -> "Unexpected token"
           [] OTHER -> "Cannot read properties of undefined (reading 'length')"

\* C24: the documentation search never throws: an empty or non-string query
\* (no HTTP request sent), a rejected fetch, a non-2xx status and a payload
\* without results each give one text block of JSON with success false and
\* the error message; success true only after a 2xx response with results
C24_SearchNeverThrows ==
    run.name = "search-commerce-app-builder-docs"
        => /\ run.outcome.kind = "returned"
           /\ OneTextBlock(run.outcome.value)
           /\ Len(run.commands) = IF QueryUsable THEN 1 ELSE 0
           /\ run.outcome.value =
                IF QueryUsable /\ run.env.fetch = "results"
                THEN SearchResponse(TRUE, "documents")
                ELSE SearchResponse(FALSE, SearchError)

C24_Witness ==
    /\ run.name = "search-commerce-app-builder-docs"
    /\ run.args = [query |-> Whole("5")]
    /\ run.outcome.value = SearchResponse(FALSE, "Query must be a non-empty string")
    /\ run.commands = <<>>

\* the schemas directory holds a descriptor document for name that loads and
\* compiles
ValidDescriptor(name) ==
    \E i \in 1..Len(dir) :
        /\ dir[i].isJson
        /\ dir[i].name = name
        /\ LoadableDoc(dir[i])
        /\ Compiles(dir[i])

\* C25: once the server is constructed, connected and started, a call
\* naming a tool whose descriptor document is valid is never answered
\* 'Schema not found', however the request interleaves with the startup load
\* (no reload is involved and every document of the directory loads)
C25_ValidNeverNotFound ==
    [][ (/\ IsCallStart
         /\ load.pc # "idle"
         /\ ~load.reload
         /\ LoadSucceeds
         /\ ValidDescriptor(request'.name))
            => response' # Returned(TextResponse(<<"(x) Input validation failed: ",
                                                   "Schema not found: ", request'.name>>))
      ]_vars

\* C26: argument keys that the tool descriptor's properties do not declare
\* never reach the handler: the object prepared for the handler holds declared
\* property names only (validated input values and filled defaults)
C26_OnlyDeclaredKeys ==
    [][ (IsCallStart /\ handlerArgs'.defined)
            => /\ request'.name \in DOMAIN zodSchemas
               /\ DOMAIN handlerArgs'.obj \subseteq ShapeKeys(zodSchemas[request'.name])
               /\ \A k \in DOMAIN request'.args.obj \cap DOMAIN handlerArgs'.obj :
                     handlerArgs'.obj[k] = request'.args.obj[k] ]_vars

C26_Witness ==
    /\ callPc = "running"
    /\ request.name = "aio-login"
    /\ "extra" \in DOMAIN request.args.obj
    /\ DOMAIN handlerArgs.obj = {"param1", "param2"}

\* the command at position i of the invocation is `aio app deploy ...`
IsDeployCommand(i) ==
    /\ Len(run.commands[i]) >= 3
    /\ SubSeq(run.commands[i], 1, 3) = <<"aio", "app", "deploy">>

\* C27: aio-app-deploy executes `aio app deploy` only after the nested
\* aio-where step succeeded; when aio-where fails the handler returns
\* aio-where's failure response unchanged and never executes the deploy
C27_DeployAfterWhere ==
    (run.name = "aio-app-deploy" /\ run.env.isProject)
        => /\ Len(run.commands) >= 1
           /\ run.commands[1] = <<"aio", "where">>
           /\ \A i \in 1..Len(run.commands) :
                 IsDeployCommand(i) => (i = 2 /\ run.env.whereResult.success)
           /\ ~run.env.whereResult.success
                 => /\ run.commands = << <<"aio", "where">> >>
                    /\ run.outcome.kind = "returned"
                    /\ run.outcome.value =
                          TextResponse(<<"(x) Failed to get Adobe I/O configuration",
                                         ErrorText(run.env.whereResult.error)>>)

C27_Witness ==
    /\ run.name = "aio-app-deploy"
    /\ run.env.isProject
    /\ ~run.env.whereChild.spawned
    /\ run.env.result.success
    /\ run.commands = << <<"aio", "where">> >>

\* C28: aio-app-deploy never returns the 'deployment failed!' narrative for
\* a deploy command that succeeded: whatever markers the output carries, a
\* successful command gives the 'completed successfully' or the 'No actions
\* were deployed' response
C28_SuccessNeverFailedNarrative ==
    (/\ run.name = "aio-app-deploy"
     /\ run.env.isProject
     /\ run.env.whereResult.success
     /\ run.env.result.success)
        => /\ run.outcome.kind = "returned"
           /\ run.outcome.value.content[1].text[1] \in
                 {"(ok) Adobe I/O App deployment completed successfully!",
                  "(x) **No actions were deployed!**"}

\* the chunks of the child's stdout that contain 'press CTRL+C'
PressCtrlC ==
    {i \in 1..Len(dev.stdout) :
        dev.stdout[i] \in {"press CTRL+C", "press CTRL+C to terminate the dev environment"}}

\* C29: aio-app-dev answers 'Development Server Started Successfully' only
\* if, after a chunk containing 'press CTRL+C', a readiness probe of at most
\* 30 attempts got status 401; and when several resolutions are triggered
\* for one invocation the caller gets the first one resolved
C29_DevSuccessAndFirstWins ==
    /\ (dev.settled /\ dev.response = createSuccessResponse)
          => /\ PressCtrlC # {}
             /\ \E i \in 1..Len(dev.probes) : dev.probes[i] \in 1..30
    /\ Len(dev.probes) + dev.timers <= Cardinality(PressCtrlC)
    /\ dev.settled = (dev.resolutions # <<>>)
    /\ dev.settled => dev.response = dev.resolutions[1]

C29_Witness ==
    /\ run.name = "aio-app-dev"
    /\ dev.settled
    /\ dev.response = createSuccessResponse
    /\ dev.probes = <<30, 31>>
    /\ dev.resolutions = <<createSuccessResponse, StartedNotReady>>

\* the action argument of the aio-configure-global invocation
RunAction == IF "action" \in DOMAIN run.args THEN StrOf(run.args, "action") ELSE "undefined"

\* C30: aio-configure-global executes no command and returns an error
\* response when a select action lacks its org, project or workspace argument
\* (missing or empty) or when the action is not one of the seven known ones;
\* for show-current '--verbose' is never appended, whatever verbose is
C30_ConfigureGlobalGuards ==
    run.name = "aio-configure-global"
        => /\ (\/ RunAction \in SelectActions /\ ~Truthy(run.args, ResourceOf(RunAction))
               \/ RunAction \notin ListActions \cup SelectActions \cup {"show-current"})
                 => /\ run.commands = <<>>
                    /\ run.outcome.kind = "returned"
                    /\ run.outcome.value.content[1].text[1] \in
                          {"(x) Error: ", "(x) Error: Unknown action '"}
           /\ RunAction = "show-current"
                 => /\ run.commands = << <<"aio", "where">> >>
                    /\ ~Mentions(run.commands[1], "--verbose")

C30_Witness ==
    /\ run.name = "aio-configure-global"
    /\ RunAction = "show-current"
    /\ Truthy(run.args, "verbose")
    /\ run.commands = << <<"aio", "where">> >>

====
